---- MODULE Spec2Model ----
(***************************************************************************)
(* A model of the crawl pipeline of linkedin_scraper:                      *)
(*   LinkedInJobScraper.scrape_jobs and the methods it calls               *)
(*   (_login, _get_all_job_ids, _get_job_ids, _get_job_details,            *)
(*   _should_include_job, _save_results) over the jobs table of models.py. *)
(* The browser (selenium) and the database (sqlalchemy over sqlite) are    *)
(* the environment: every call into them either returns or raises, and     *)
(* what a page shows is chosen freely at each step.                        *)
(***************************************************************************)
EXTENDS Naturals, Sequences, FiniteSets

\* ------------------------------------------------------------------ bounds
\* Runs of scrape_jobs over the same jobs.db.
MaxRuns == 2
\* Result pages the site serves for one search (one geo_id).
MaxPages == 2
\* Job cards on one result page.
MaxCards == 2
\* Length of a title on a detail page (filter specification) and of the
\* value of an environment variable (environment specification).
MaxStrLen == 2
\* Length of a keyword list (filter specification).
MaxKeywords == 2
\* The largest max_retries given to retry_on_failure (retry specification).
MaxRetries == 3
\* The largest delay given to retry_on_failure (retry specification).
MaxDelay == 3

\* ------------------------------------------------------------ the domain
\* config.geo_ids: the scopes of one run, in configuration order.
GeoIds == <<"g1", "g2">>
\* data-job-id values the site can show.
JobIds == {"1", "2"}
\* A card of a result page: its data-job-id, no such attribute (""), or a
\* card whose get_attribute raises (a stale element).
Cards == JobIds \cup {"", "stale"}

RECURSIVE SeqsUpTo(_, _)
SeqsUpTo(S, n) ==
    IF n = 0 THEN {<<>>}
    ELSE LET shorter == SeqsUpTo(S, n - 1)
         IN  shorter \cup {Append(s, x) : s \in {t \in shorter : Len(t) = n - 1}, x \in S}

Range(s) == {s[i] : i \in 1..Len(s)}

Count(s, x) == Cardinality({i \in 1..Len(s) : s[i] = x})

NoDuplicates(s) == \A i, j \in 1..Len(s) : i # j => s[i] # s[j]

\* The orders list(a_set) can come out in: Python fixes none.
ListsOf(S) == {s \in SeqsUpTo(S, Cardinality(S)) : Len(s) = Cardinality(S) /\ Range(s) = S}

\* ---------------------------------------------------------------- strings
\* A string is a sequence of characters; str.lower() acts per character.
LowerChar(c) == IF c = "A" THEN "a" ELSE IF c = "B" THEN "b" ELSE IF c = "X" THEN "x" ELSE c

Lower(s) == [i \in 1..Len(s) |-> LowerChar(s[i])]

\* sep.join(values)
RECURSIVE Join(_, _)
Join(values, sep) ==
    IF Len(values) = 0 THEN <<>>
    ELSE IF Len(values) = 1 THEN values[1]
    ELSE values[1] \o sep \o Join(Tail(values), sep)

\* Python's `k in s` on strings.
In(k, s) == \E i \in 0..Len(s) : i + Len(k) <= Len(s) /\ SubSeq(s, i + 1, i + Len(k)) = k

\* Python's s.split(sep) for a one-character sep: the pieces between the
\* separators, so that "".split(",") is [""] and "a,".split(",") is ["a", ""].
RECURSIVE Split(_, _)
Split(s, sep) ==
    IF \A i \in 1..Len(s) : s[i] # sep THEN <<s>>
    ELSE LET i == CHOOSE k \in 1..Len(s) : s[k] = sep /\ \A m \in 1..(k - 1) : s[m] # sep
         IN  <<SubSeq(s, 1, i - 1)>> \o Split(SubSeq(s, i + 1, Len(s)), sep)

\* os.getenv(name, default): a variable of the environment is <<>> when
\* unset and <<its value>> when set.
GetEnv(variable, default) == IF variable = <<>> THEN default ELSE variable[1]

\* --------------------------------------------------------- detail records
\* The prefix of a detail URL (BASE_URL + "/jobs/search/?currentJobId="),
\* shortened to two characters.
DetailUrlPrefix == <<"u", "=">>

\* What a detail page shows: the text of each element, and the elements
\* find_element does not find ("title", "company", "description", "location").
MkPage(title, absent) ==
    [title |-> title, company |-> <<"c">>, description |-> <<"d">>,
     location |-> <<"l">>, absent |-> absent]

\* The detail pages of the pipeline specification.
DetailPages ==
    {MkPage(t, ab) : t \in {<<"A", "b">>, <<"x">>},
                     ab \in {{}, {"title"}, {"location"}}}

\* The dict built by _get_job_details, its keys in insertion order.
MkDetails(job_id, page) ==
    [job_id |-> job_id, title |-> page.title, company |-> page.company,
     description |-> page.description, url |-> DetailUrlPrefix \o <<job_id>>,
     location |-> page.location]

\* job_details.values(), each through str().
DetailValues(d) == <<(<<d.job_id>>), d.title, d.company, d.description, d.url, d.location>>

\* _get_job_details after the navigation: the four find_element calls are
\* inside one try; any of them raising makes the method return None.
NoDetails == [job_id |-> "", title |-> <<>>, company |-> <<>>, description |-> <<>>,
              url |-> <<>>, location |-> <<>>]

GetJobDetails(job_id, page) ==
    IF page.absent # {} THEN NoDetails ELSE MkDetails(job_id, page)

\* ----------------------------------------------------------------- filter
\* A slip: the keyword is matched as configured, not lowercased.
AnyKeywordIn_NoLower(keywords, content) ==
    \E i \in 1..Len(keywords) : In(keywords[i], content)

\* any(keyword.lower() in content for keyword in keywords)
AnyKeywordIn(keywords, content) ==
    \E i \in 1..Len(keywords) : In(Lower(keywords[i]), content)

\* _should_include_job
ShouldIncludeJob(job_details, contains, non_contains) ==
    LET values == DetailValues(job_details)
        content == Join([i \in 1..Len(values) |-> Lower(values[i])], <<" ">>)
    IN  IF Len(contains) > 0 /\ ~AnyKeywordIn(contains, content) THEN FALSE
        ELSE IF Len(non_contains) > 0 /\ AnyKeywordIn(non_contains, content) THEN FALSE
        ELSE TRUE

\* ScraperConfig.from_env, the two keyword settings.
FromEnv(env) ==
    [contains |-> Split(GetEnv(env.CONTAINS, <<>>), ","),
     non_contains |-> Split(GetEnv(env.NON_CONTAINS, <<>>), ",")]

\* The configurations of the pipeline specification (contains, non_contains).
Configs ==
    {[contains |-> <<>>, non_contains |-> <<>>],
     [contains |-> <<(<<"A">>), (<<"q">>)>>, non_contains |-> <<(<<"X">>)>>]}

\* ------------------------------------------------------------------ store
\* A column holding NULL.
Null == <<"NULL">>

\* Job(success=True, ...) of one accepted record, before it has a row id.
SuccessRow(job_data) ==
    [job_id |-> job_data.job_id, success |-> TRUE, title |-> job_data.title,
     company |-> job_data.company, description |-> job_data.description,
     url |-> job_data.url, location |-> job_data.location, error |-> Null]

\* Job(job_id=..., success=False, error=...) of one failed record.
FailureRow(failed) ==
    [job_id |-> failed.job_id, success |-> FALSE, title |-> Null, company |-> Null,
     description |-> Null, url |-> Null, location |-> Null, error |-> failed.error]

\* The Job objects one _save_results call merges, in order.
BatchRows(jobs, failed) ==
    [i \in 1..Len(jobs) |-> SuccessRow(jobs[i])] \o
    [i \in 1..Len(failed) |-> FailureRow(failed[i])]

\* Job.id: the integer primary key sqlite assigns on INSERT.
NextRowId(rows) ==
    IF rows = {} THEN 1
    ELSE (CHOOSE n \in {r.id : r \in rows} : \A r \in rows : r.id <= n) + 1

\* Job.job_id is unique=True: an INSERT of a job_id the table (with this
\* transaction's rows) already holds raises IntegrityError.
UniqueViolation(rows, row) == \E r \in rows : r.job_id = row.job_id

\* session.merge(job): the Job carries no primary key (id is never set), so
\* merge looks nothing up and adds the object as new; it is INSERTed at the
\* next flush, where scraped_date takes its default, the time of the run
\* (`now`: the number of the run stands for it).
InsertRow(rows, row, now) ==
    rows \cup {[id |-> NextRowId(rows), job_id |-> row.job_id, success |-> row.success,
                title |-> row.title, company |-> row.company,
                description |-> row.description, url |-> row.url,
                location |-> row.location, error |-> row.error, scraped_date |-> now]}

RowsOf(rows, job_id) == {r \in rows : r.job_id = job_id}

\* ------------------------------------------------------------- discovery
\* _get_job_ids: the data-job-id of every card, as list(set). A card whose
\* get_attribute raises reaches `except StaleElementReferenceException`, a
\* name scraper.py never imports: evaluating it raises NameError, which
\* leaves the method. find_elements raising leaves it too.
PageRaises(cards, find_fails) == find_fails \/ \E i \in 1..Len(cards) : cards[i] = "stale"

GetJobIds(cards) == {cards[i] : i \in {j \in 1..Len(cards) : cards[j] \notin {"", "stale"}}}

\* A slip: the set is assigned the page's ids, not updated with them.
UpdateIds_Replace(all_ids, ids) == ids

\* all_job_ids.update(ids)
UpdateIds(all_ids, ids) == all_ids \cup ids

\* A slip: the ids of a scope put in front of the earlier scopes' ids.
ExtendJobIds_Prepend(ids_so_far, ids) == ids \o ids_so_far

\* job_ids.extend(ids)
ExtendJobIds(ids_so_far, ids) == ids_so_far \o ids

\* ------------------------------------------------------------------ state
VARIABLES
    pc,            \* where scrape_jobs stands
    run,           \* runs started so far over the same database
    config,        \* self.config: contains, non_contains
    driver,        \* the browser: "none", "open", "quit"
    quits,         \* history: the driver.quit() calls of this run
    exc,           \* the exception leaving scrape_jobs, "none" while there is none
    auth,          \* history: how _login ended: "none", "ok", "failed"
    geo_idx,       \* index of the geo_id being discovered
    all_job_ids,   \* _get_all_job_ids: the set accumulated for this geo_id
    job_ids,       \* scrape_jobs: the list of ids to extract
    idx,           \* index of the job_id the extraction loop stands at
    all_jobs,      \* scrape_jobs: the accepted records
    failed_jobs,   \* scrape_jobs: the failed records
    session,       \* _save_results: the open transaction
    db,            \* the committed rows of the jobs table
    attempts,      \* history: the job_ids passed to _get_job_details, in order
    failures,      \* history: the items whose extraction failed: index in job_ids, and how
    scope,         \* history: the discovery of the current (or last) geo_id
    save,          \* history: the _save_results call of this run
    output_file,   \* the file at config.output_file: <<its document>>, <<>> while absent
    f_in,          \* filter specification: the inputs of _should_include_job
    f_out,         \* filter specification: what it returned
    d_in,          \* details specification: the job_id and the page of _get_job_details
    d_out,         \* details specification: <<what it returned>>, <<>> before the call
    e_in,          \* environment specification: CONTAINS, NON_CONTAINS and a record
    e_out,         \* environment specification: <<the config built and the filter's answer>>
    r_in,          \* retry specification: max_retries and delay of retry_on_failure
    r_st           \* retry specification: the wrapper's loop index, calls, sleeps, outcome

vars == <<pc, run, config, driver, quits, exc, auth, geo_idx, all_job_ids, job_ids, idx, all_jobs,
          failed_jobs, session, db, attempts, failures, scope, save,
          output_file, f_in, f_out, d_in, d_out, e_in, e_out, r_in, r_st>>

filter_vars == <<f_in, f_out>>

\* The state of the specifications of single methods, which no step of
\* scrape_jobs touches.
unit_vars == <<d_in, d_out, e_in, e_out, r_in, r_st>>

NoScope == [union |-> {}, first |-> {}, pages |-> 0, stop |-> "none", returned |-> <<>>,
            saw_no_next |-> FALSE]
NoSession == [open |-> FALSE, pending |-> <<>>, rows |-> {}, at |-> 1]
NoSave == [calls |-> 0, batch |-> <<>>, db_before |-> {}, outcome |-> "none",
           returned |-> "none", failed_at |-> 0, cause |-> "none"]
NoFilterInput == [details |-> NoDetails, contains |-> <<>>, non_contains |-> <<>>]
NoDetailsInput == [job_id |-> "", page |-> MkPage(<<>>, {})]
NoRetry == [attempt |-> 0, calls |-> <<>>, sleeps |-> <<>>, how |-> "pending", what |-> "none"]
NoEnvInput == [CONTAINS |-> <<>>, NON_CONTAINS |-> <<>>, details |-> NoDetails]

\* The locals of scrape_jobs at its start (lines 55-57), and the history of
\* a run that has done nothing yet.
RunStart ==
    /\ pc = "start"
    /\ driver = "none"
    /\ quits = 0
    /\ exc = "none"
    /\ auth = "none"
    /\ geo_idx = 1
    /\ all_job_ids = {}
    /\ job_ids = <<>>
    /\ idx = 1
    /\ all_jobs = <<>>
    /\ failed_jobs = <<>>
    /\ session = NoSession
    /\ attempts = <<>>
    /\ failures = <<>>
    /\ scope = NoScope
    /\ save = NoSave

\* The specifications of single methods before they are given inputs.
FilterIdle == f_in = NoFilterInput /\ f_out = "none"
DetailsIdle == d_in = NoDetailsInput /\ d_out = <<>>
EnvIdle == e_in = NoEnvInput /\ e_out = <<>>
RetryIdle == r_in = [max_retries |-> 0, delay |-> 0] /\ r_st = NoRetry

\* A first run that has not started, over an empty table.
PipelineIdle ==
    /\ RunStart
    /\ run = 1
    /\ config = [contains |-> <<>>, non_contains |-> <<>>]
    /\ db = {}
    /\ output_file = <<>>

Init ==
    /\ RunStart
    /\ run = 1
    /\ config \in Configs
    /\ db = {}
    /\ output_file = <<>>
    /\ FilterIdle
    /\ DetailsIdle
    /\ EnvIdle
    /\ RetryIdle

\* main(): one more run of the program over the same jobs.db.
StartRun ==
    /\ pc \in {"done", "raised"}
    /\ run < MaxRuns
    /\ run' = run + 1
    /\ pc' = "start"
    /\ driver' = "none"
    /\ quits' = 0
    /\ exc' = "none"
    /\ auth' = "none"
    /\ geo_idx' = 1
    /\ all_job_ids' = {}
    /\ job_ids' = <<>>
    /\ idx' = 1
    /\ all_jobs' = <<>>
    /\ failed_jobs' = <<>>
    /\ session' = NoSession
    /\ attempts' = <<>>
    /\ failures' = <<>>
    /\ scope' = NoScope
    /\ save' = NoSave
    /\ UNCHANGED <<config, db, output_file, filter_vars, unit_vars>>

\* webdriver.Chrome(options=options), before the try statement.
CreateDriver ==
    /\ pc = "start"
    /\ \E ok \in BOOLEAN :
         IF ok THEN driver' = "open" /\ pc' = "login" /\ exc' = "none"
         ELSE driver' = "none" /\ pc' = "raised" /\ exc' = "driver"
    /\ UNCHANGED <<run, config, quits, auth, geo_idx, all_job_ids, job_ids, idx, all_jobs,
                   failed_jobs, session, db, attempts, failures, scope, save, output_file,
                   filter_vars, unit_vars>>

\* Where the for loop over config.geo_ids goes once geo_id number g is next.
AfterScope(g, ids) ==
    IF g <= Len(GeoIds) THEN "navigate"
    ELSE IF Len(ids) > 0 THEN "extract" ELSE "quit"

\* A slip: _login wrapped in a try that logs and carries on.
LoginFailed_Swallowed == [pc |-> "navigate", exc |-> "none"]

\* self._login(driver), the first statement of the try: nothing in
\* scrape_jobs catches what it raises, so the finally clause runs next.
LoginFailed == [pc |-> "quit", exc |-> "login"]

Login ==
    /\ pc = "login"
    /\ \E ok \in BOOLEAN :
         IF ok THEN pc' = AfterScope(1, job_ids) /\ exc' = "none" /\ auth' = "ok"
         ELSE pc' = LoginFailed.pc /\ exc' = LoginFailed.exc /\ auth' = "failed"
    /\ UNCHANGED <<run, config, driver, quits, geo_idx, all_job_ids, job_ids, idx, all_jobs,
                   failed_jobs, session, db, attempts, failures, scope, save,
                   output_file, filter_vars, unit_vars>>

\* A slip: the geo_id loop outside the try/finally, the exception leaves
\* scrape_jobs with the browser still open.
NavigateFailed_NoFinally == [pc |-> "raised", exc |-> "navigate"]

\* _get_all_job_ids, line 123: driver.get(url) stands before the method's
\* try statement, so what it raises leaves the method, and scrape_jobs has
\* no except clause around the geo_id loop: its finally clause runs next.
NavigateFailed == [pc |-> "quit", exc |-> "navigate"]

Navigate ==
    /\ pc = "navigate"
    /\ geo_idx <= Len(GeoIds)
    /\ \E ok \in BOOLEAN :
         IF ok
         THEN /\ pc' = "first_page"
              /\ exc' = "none"
              /\ scope' = NoScope
         ELSE /\ pc' = NavigateFailed.pc
              /\ exc' = NavigateFailed.exc
              /\ scope' = [NoScope EXCEPT !.stop = "navigate_error"]
    /\ all_job_ids' = {}
    /\ UNCHANGED <<run, config, driver, quits, auth, geo_idx, job_ids, idx, all_jobs, failed_jobs,
                   session, db, attempts, failures, save, output_file, filter_vars, unit_vars>>

\* The end of _get_all_job_ids (lines 155-157) and of the loop body of
\* scrape_jobs (line 64): list(all_job_ids), in whatever order the set
\* yields, is appended to job_ids, and the loop goes to the next geo_id.
FinishScope(ids, stop, saw_no_next) ==
    /\ \E lst \in ListsOf(ids) :
         /\ job_ids' = ExtendJobIds(job_ids, lst)
         /\ scope' = [scope EXCEPT !.stop = stop, !.returned = lst,
                                   !.saw_no_next = saw_no_next]
         /\ pc' = AfterScope(geo_idx + 1, job_ids')
    /\ geo_idx' = geo_idx + 1
    /\ all_job_ids' = ids

\* Lines 145-147: no next-page control is the normal end of the pagination.
OnNoSuchElement == "no_next"

\* Lines 148-150 and 152-153: any other exception is logged, and the ids
\* accumulated so far are returned.
OnPageError == "error"

\* Line 129: the ids of the first result page.
FirstPage ==
    /\ pc = "first_page"
    /\ \E cards \in SeqsUpTo(Cards, MaxCards), find_fails \in BOOLEAN :
         IF PageRaises(cards, find_fails)
         THEN FinishScope(all_job_ids, OnPageError, FALSE)
         ELSE /\ all_job_ids' = UpdateIds(all_job_ids, GetJobIds(cards))
              /\ scope' = [scope EXCEPT !.union = @ \cup GetJobIds(cards),
                                        !.first = GetJobIds(cards), !.pages = 1]
              /\ pc' = "next_page"
              /\ UNCHANGED <<geo_idx, job_ids>>
    /\ UNCHANGED <<run, config, driver, quits, exc, auth, idx, all_jobs, failed_jobs, session, db,
                   attempts, failures, save, output_file, filter_vars, unit_vars>>

\* One turn of the while loop, lines 131-150: find the next-page control,
\* click it, read the ids of the page that comes up.
NextPage ==
    /\ pc = "next_page"
    /\ \/ FinishScope(all_job_ids, OnNoSuchElement, TRUE)
       \/ FinishScope(all_job_ids, OnPageError, FALSE)
       \/ /\ scope.pages < MaxPages
          /\ \E cards \in SeqsUpTo(Cards, MaxCards), find_fails \in BOOLEAN :
               IF PageRaises(cards, find_fails)
               THEN FinishScope(all_job_ids, OnPageError, FALSE)
               ELSE /\ all_job_ids' = UpdateIds(all_job_ids, GetJobIds(cards))
                    /\ scope' = [scope EXCEPT !.union = @ \cup GetJobIds(cards),
                                              !.pages = @ + 1]
                    /\ pc' = "next_page"
                    /\ UNCHANGED <<geo_idx, job_ids>>
    /\ UNCHANGED <<run, config, driver, quits, exc, auth, idx, all_jobs, failed_jobs, session, db,
                   attempts, failures, save, output_file, filter_vars, unit_vars>>

\* ------------------------------------------------------------- extraction
\* A slip: the loop without its except clause, an item's exception leaves it.
AfterItem_Propagates(i, n, raised) ==
    IF raised THEN [pc |-> "quit", exc |-> "extract"]
    ELSE IF i + 1 > n THEN [pc |-> "quit", exc |-> "none"]
    ELSE [pc |-> "extract", exc |-> "none"]

\* Lines 66-76: where the for loop over job_ids goes after item number i of
\* n. `raised` says _get_job_details raised (its driver.get, line 174, is
\* outside its try): `except Exception` logs and continues, so the next
\* item is the same whether the item raised or not.
AfterItem(i, n, raised) ==
    IF i + 1 > n THEN [pc |-> "quit", exc |-> "none"]
    ELSE [pc |-> "extract", exc |-> "none"]

\* Lines 69-76: what the loop does to failed_jobs when an item yields no
\* record (details is None) or raises: it logs, and appends nothing.
RecordFailure(failed, job_id) == failed

\* One turn of the for loop over job_ids.
ExtractItem ==
    /\ pc = "extract"
    /\ idx <= Len(job_ids)
    /\ attempts' = Append(attempts, job_ids[idx])
    /\ \E nav_raises \in BOOLEAN, page \in DetailPages :
         LET job_id == job_ids[idx]
             details == GetJobDetails(job_id, page)
             failed == nav_raises \/ details = NoDetails
             next == AfterItem(idx, Len(job_ids), nav_raises)
         IN  /\ all_jobs' =
                  IF ~failed /\ ShouldIncludeJob(details, config.contains, config.non_contains)
                  THEN Append(all_jobs, details)
                  ELSE all_jobs
             /\ failed_jobs' = IF failed THEN RecordFailure(failed_jobs, job_id)
                               ELSE failed_jobs
             /\ failures' =
                  IF failed
                  THEN Append(failures, [at |-> idx,
                                         how |-> IF nav_raises THEN "raised" ELSE "no_record"])
                  ELSE failures
             /\ pc' = next.pc
             /\ exc' = next.exc
    /\ idx' = idx + 1
    /\ UNCHANGED <<run, config, driver, quits, auth, geo_idx, all_job_ids, job_ids, session,
                   db, scope, save, output_file, filter_vars, unit_vars>>

\* Lines 77-85: the finally clause quits the browser; an exception in
\* flight then leaves scrape_jobs; otherwise _save_results is called when
\* either list is non-empty (line 286 opens its session).
ShouldSave_Always(jobs, failed) == TRUE

\* if len(all_jobs) > 0 or len(failed_jobs) > 0
ShouldSave(jobs, failed) == Len(jobs) > 0 \/ Len(failed) > 0

Quit ==
    /\ pc = "quit"
    /\ driver' = "quit"
    /\ quits' = quits + 1
    /\ IF exc # "none"
       THEN pc' = "raised" /\ UNCHANGED <<session, save>>
       ELSE IF ShouldSave(all_jobs, failed_jobs)
       THEN /\ pc' = "save"
            /\ session' = [open |-> TRUE, pending |-> <<>>, rows |-> db, at |-> 1]
            /\ save' = [NoSave EXCEPT !.calls = save.calls + 1,
                                      !.batch = BatchRows(all_jobs, failed_jobs),
                                      !.db_before = db]
       ELSE pc' = "done" /\ UNCHANGED <<session, save>>
    /\ UNCHANGED <<run, config, exc, auth, geo_idx, all_job_ids, job_ids, idx, all_jobs,
                   failed_jobs, db, attempts, failures, scope, output_file, filter_vars, unit_vars>>

\* ------------------------------------------------------------ persistence
\* session.flush(): INSERT the pending objects into the transaction.
RECURSIVE Flush(_, _, _)
Flush(rows, pending, now) ==
    IF Len(pending) = 0 THEN rows
    ELSE Flush(InsertRow(rows, Head(pending), now), Tail(pending), now)

RECURSIVE FlushRaises(_, _)
FlushRaises(rows, pending) ==
    IF Len(pending) = 0 THEN FALSE
    ELSE \/ UniqueViolation(rows, Head(pending))
         \/ FlushRaises(InsertRow(rows, Head(pending), 0), Tail(pending))

\* A slip: commit in place of rollback, the rows flushed so far stay.
Rollback_KeepsFlushed(committed, txn_rows) == txn_rows

\* A slip: the table is emptied to undo the transaction.
Rollback_DropsTable(committed, txn_rows) == {}

\* session.rollback(), line 317: the table is what it was before the call.
Rollback(committed, txn_rows) == committed

\* The handler with a `raise` after the rollback.
OnSaveError_Reraises == [returned |-> "raised", pc |-> "raised", exc |-> "persistence"]

\* Lines 315-320: `except Exception` logs and rolls back, and does not
\* re-raise: _save_results returns normally.
OnSaveError == [returned |-> "normal", pc |-> "done", exc |-> "none"]

SaveFailed(cause) ==
    /\ db' = Rollback(db, session.rows)
    /\ session' = NoSession
    /\ save' = [save EXCEPT !.outcome = "rolled_back", !.returned = OnSaveError.returned,
                            !.failed_at = session.at, !.cause = cause]
    /\ pc' = OnSaveError.pc
    /\ exc' = OnSaveError.exc

\* One session.merge(job), lines 293-308. merge autoflushes first: the
\* objects merged so far are INSERTed, which raises on a job_id the table
\* already holds (or when the database fails); then the object is pending.
SaveItem ==
    /\ pc = "save"
    /\ session.at <= Len(save.batch)
    /\ \E io_fails \in BOOLEAN :
         IF Len(session.pending) > 0 /\ (io_fails \/ FlushRaises(session.rows, session.pending))
         THEN SaveFailed(IF FlushRaises(session.rows, session.pending)
                         THEN "IntegrityError" ELSE "OperationalError")
         ELSE /\ session' = [session EXCEPT !.rows = Flush(session.rows, session.pending, run),
                                            !.pending = <<save.batch[session.at]>>,
                                            !.at = @ + 1]
              /\ UNCHANGED <<pc, exc, db, save>>
    /\ UNCHANGED <<run, config, driver, quits, auth, geo_idx, all_job_ids, job_ids, idx, all_jobs,
                   failed_jobs, attempts, failures, scope, output_file, filter_vars, unit_vars>>

\* session.commit(), line 310: flush what is pending, then commit.
SaveCommit ==
    /\ pc = "save"
    /\ session.at > Len(save.batch)
    /\ \E io_fails \in BOOLEAN :
         IF io_fails \/ FlushRaises(session.rows, session.pending)
         THEN SaveFailed(IF FlushRaises(session.rows, session.pending)
                         THEN "IntegrityError" ELSE "OperationalError")
         ELSE /\ db' = Flush(session.rows, session.pending, run)
              /\ session' = NoSession
              /\ save' = [save EXCEPT !.outcome = "committed", !.returned = "normal"]
              /\ pc' = "done"
              /\ exc' = "none"
    /\ UNCHANGED <<run, config, driver, quits, auth, geo_idx, all_job_ids, job_ids, idx, all_jobs,
                   failed_jobs, attempts, failures, scope, output_file, filter_vars, unit_vars>>

Next ==
    \/ StartRun
    \/ CreateDriver
    \/ Login
    \/ Navigate
    \/ FirstPage
    \/ NextPage
    \/ ExtractItem
    \/ Quit
    \/ SaveItem
    \/ SaveCommit

Spec == Init /\ [][Next]_vars

\* ------------------------------------------------- filter specification
\* _should_include_job on its own: the inputs are drawn at the start, the
\* one action applies the method.
FilterPages ==
    {[MkPage(t, {}) EXCEPT !.company = c] :
        t \in SeqsUpTo({"a", "A", "b"}, MaxStrLen), c \in {<<>>, <<"b">>}}

FilterKeywords == {<<>>, <<"A">>, <<"a", " ", "b">>, <<"B", "A">>}

FilterInputs ==
    [details : {MkDetails("1", p) : p \in FilterPages},
     contains : SeqsUpTo(FilterKeywords, MaxKeywords),
     non_contains : SeqsUpTo(FilterKeywords, MaxKeywords)]

FilterInit ==
    /\ PipelineIdle
    /\ f_in \in FilterInputs
    /\ f_out = "none"
    /\ DetailsIdle
    /\ EnvIdle
    /\ RetryIdle

ApplyFilter ==
    /\ f_out = "none"
    /\ f_out' = IF ShouldIncludeJob(f_in.details, f_in.contains, f_in.non_contains)
                THEN "include" ELSE "exclude"
    /\ UNCHANGED <<pc, run, config, driver, quits, exc, auth, geo_idx, all_job_ids, job_ids, idx,
                   all_jobs, failed_jobs, session, db, attempts, failures, scope, save,
                   output_file, f_in, unit_vars>>

FilterNext == ApplyFilter

SpecFilter == FilterInit /\ [][FilterNext]_vars

\* ----------------------------------------------------------------- claims
LoopLeft == pc \in {"quit", "save", "done", "raised"}

\* C1: in one run, _get_job_details is attempted at most once per job id,
\* also for an id discovered under two geo_ids.
C1_ExtractedAtMostOnce == \A j \in JobIds : Count(attempts, j) <= 1

\* C2: a failing item (one that raises, or yields no record) does not stop
\* the extraction loop: every item of job_ids is attempted, in order, and no
\* exception leaves the loop.
C2_ItemFailureDoesNotStopLoop ==
    /\ pc = "extract" => attempts = SubSeq(job_ids, 1, idx - 1)
    /\ (Len(attempts) > 0 /\ LoopLeft) => attempts = job_ids
    /\ Len(failures) > 0 => exc = "none"

C2_Witness ==
    /\ pc = "quit"
    /\ Len(job_ids) >= 3
    /\ attempts = job_ids
    /\ Len(failures) = 2
    /\ failures[1] = [at |-> 1, how |-> "raised"]
    /\ failures[2] = [at |-> 2, how |-> "no_record"]
    /\ Len(all_jobs) > 0

\* C3: when the extraction loop has ended, failed_jobs holds exactly one
\* record for each item whose extraction failed, and none for the others.
C3_FailuresRecorded ==
    (LoopLeft /\ exc = "none") =>
        /\ Len(failed_jobs) = Len(failures)
        /\ \A i \in 1..Len(failures) : failed_jobs[i].job_id = job_ids[failures[i].at]

\* The columns of a row but its row id and scraped_date.
RowContent(r) ==
    [job_id |-> r.job_id, success |-> r.success, title |-> r.title, company |-> r.company,
     description |-> r.description, url |-> r.url, location |-> r.location,
     error |-> r.error]

\* The last record a batch carries for a job_id.
LastOf(batch, job_id) ==
    batch[CHOOSE i \in 1..Len(batch) :
            /\ batch[i].job_id = job_id
            /\ \A k \in (i + 1)..Len(batch) : batch[k].job_id # job_id]

\* C4: after a _save_results call whose database did not fail, every job_id
\* of the batch that had a row before the call has exactly one row, and that
\* row holds the record this run saved for it.
C4_IdempotentUpsert ==
    (save.outcome # "none" /\ save.cause # "OperationalError") =>
        \A i \in 1..Len(save.batch) :
            LET rows == RowsOf(db, save.batch[i].job_id)
            IN  RowsOf(save.db_before, save.batch[i].job_id) # {} =>
                    /\ Cardinality(rows) = 1
                    /\ \A r \in rows : /\ RowContent(r) = LastOf(save.batch, r.job_id)
                                       /\ r.scraped_date = run

\* C5: a _save_results call leaves nothing of its batch visible unless it
\* commits: while it runs, and after a write of it failed, the table is what
\* it was when the call began, rows of earlier calls included.
C5_AtomicBatch ==
    /\ pc = "save" => db = save.db_before
    /\ save.outcome = "rolled_back" => db = save.db_before

\* A write fails after a row of the batch was INSERTed in the transaction,
\* over a table that holds rows of an earlier run.
C5_Witness ==
    /\ save.outcome = "rolled_back"
    /\ save.failed_at >= 3
    /\ Len(save.batch) >= 2
    /\ db # {}

C7_PaginationEndsAtNoNext ==
    /\ scope.saw_no_next => (scope.stop = "no_next" /\ pc \notin {"first_page", "next_page"})
    /\ scope.stop = "no_next" =>
           (NoDuplicates(scope.returned) /\ Range(scope.returned) = scope.union)

C7_Witness ==
    /\ scope.stop = "no_next"
    /\ scope.saw_no_next
    /\ scope.pages >= 2
    /\ Len(scope.returned) = 2

\* C8: an error at any step of the discovery of one geo_id (the navigation,
\* reading a page's ids, the next-page control) does not leave the
\* discovery: no exception reaches scrape_jobs, and the run goes on through
\* the remaining geo_ids.
C8_DiscoveryErrorsContained ==
    scope.stop \in {"error", "navigate_error"} =>
        /\ exc = "none"
        /\ LoopLeft => geo_idx > Len(GeoIds)

\* "k occurs in s, case-insensitively".
OccursIgnoringCase(k, s) ==
    \E i \in 0..Len(s) :
        /\ i + Len(k) <= Len(s)
        /\ \A j \in 1..Len(k) : LowerChar(k[j]) = LowerChar(s[i + j])

\* C9: _should_include_job accepts exactly when (contains is empty or one of
\* its keywords occurs in the joined fields) and no keyword of non_contains
\* occurs in them, case-insensitively.
C9_FilterSemantics ==
    f_out # "none" =>
        LET joined == Join(DetailValues(f_in.details), <<" ">>)
            required == \E i \in 1..Len(f_in.contains) :
                            OccursIgnoringCase(f_in.contains[i], joined)
            excluded == \E i \in 1..Len(f_in.non_contains) :
                            OccursIgnoringCase(f_in.non_contains[i], joined)
        IN  (f_out = "include") <=> ((Len(f_in.contains) = 0 \/ required) /\ ~excluded)

\* A record with a required keyword and an excluded one: rejected.
C9_Witness ==
    /\ f_out = "exclude"
    /\ f_in.contains = <<(<<"A">>)>>
    /\ f_in.non_contains = <<(<<"a", " ", "b">>)>>
    /\ f_in.details.title = <<"a">>
    /\ f_in.details.company = <<"b">>

\* C10: when _login raises, the run discovers nothing, extracts nothing and
\* saves nothing, the exception leaves scrape_jobs, and the browser is quit.
C10_LoginFailureIsFatal ==
    auth = "failed" =>
        /\ exc = "login"
        /\ pc \in {"quit", "raised"}
        /\ geo_idx = 1 /\ scope = NoScope /\ job_ids = <<>>
        /\ attempts = <<>>
        /\ save.calls = 0
        /\ pc = "raised" => driver = "quit"

C10_Witness ==
    /\ auth = "failed"
    /\ pc = "raised"
    /\ exc = "login"
    /\ driver = "quit"

\* The steps of scrape_jobs that navigate or look elements up.
UsesBrowser == pc \in {"login", "navigate", "first_page", "next_page", "extract"}

\* C11: on every way out of scrape_jobs once the browser exists, the browser
\* is quit exactly once, and nothing navigates or looks elements up after it.
C11_BrowserQuitOnce ==
    /\ (UsesBrowser \/ pc = "quit") => (driver = "open" /\ quits = 0)
    /\ (pc \in {"save", "done"} \/ (pc = "raised" /\ exc # "driver")) =>
           (driver = "quit" /\ quits = 1)

\* The way out through an exception of the discovery.
C11_Witness ==
    /\ pc = "raised"
    /\ exc = "navigate"
    /\ driver = "quit"
    /\ quits = 1

\* C13: in a run that does not abort, _save_results is called at most once,
\* only after the extraction loop has visited every discovered id, with the
\* final accepted and failed lists; the run that has ended made the call
\* exactly when one of the two lists is non-empty.
C13_SaveOnceIffResults ==
    /\ save.calls <= 1
    /\ save.calls = 1 =>
           /\ pc \in {"save", "done"}
           /\ exc = "none"
           /\ geo_idx > Len(GeoIds)
           /\ Len(attempts) = Len(job_ids)
           /\ save.batch = BatchRows(all_jobs, failed_jobs)
    /\ pc = "save" => save.calls = 1
    /\ pc = "done" => (save.calls = 1 <=> (Len(all_jobs) > 0 \/ Len(failed_jobs) > 0))

C13_Witness ==
    /\ pc = "done"
    /\ save.calls = 1
    /\ Len(all_jobs) >= 2
    /\ Len(failures) >= 1

\* C14: a run ends either aborted, its cause raised to the caller and nothing
\* saved, or, when it accepted an item or an extraction failed, with its
\* summary committed; a run in which every extraction failed ends with one
\* committed failure row for each attempted id.
C14_EndsPersistedOrSurfaced ==
    /\ pc = "raised" => (exc # "none" /\ save.calls = 0)
    /\ (pc = "done" /\ (Len(all_jobs) > 0 \/ Len(failures) > 0)) => save.outcome = "committed"
    /\ (pc = "done" /\ Len(attempts) > 0 /\ Len(failures) = Len(attempts)) =>
           \A i \in 1..Len(attempts) :
               \E r \in db : r.job_id = attempts[i] /\ r.success = FALSE

\* C16: no step deletes a row: the job_ids in the table never become fewer,
\* across committed and rolled back saves and aborted runs alike, and the
\* table changes only inside _save_results.
C16_NeverDeletes ==
    [][/\ {r.job_id : r \in db} \subseteq {r.job_id : r \in db'}
       /\ db' # db => pc = "save"]_vars

C16_Witness ==
    /\ run = 2
    /\ save.outcome = "committed"
    /\ save.db_before # {}
    /\ Cardinality(db) > Cardinality(save.db_before)

\* C17 as stated: the extraction loop attempts job_ids from its front, and
\* within the list a scope returned the ids read on its first page stand
\* before the ids first read on a later page.
C17_DiscoveryOrder ==
    /\ attempts = SubSeq(job_ids, 1, Len(attempts))
    /\ \A i, j \in 1..Len(scope.returned) :
           (scope.returned[i] \in scope.first /\ scope.returned[j] \notin scope.first) => i < j

\* C17, amended: geo_ids are discovered in configuration order, each scope's
\* list is appended to job_ids behind the lists of the scopes before it, the
\* extraction loop attempts job_ids from front to back, and an accepted
\* record is appended to all_jobs when its id is attempted. The order of the
\* ids inside one scope's list is not fixed.
C17_ScopeAndListOrder ==
    [][run' = run =>
          /\ geo_idx' # geo_idx =>
                 (geo_idx' = geo_idx + 1 /\ job_ids' = job_ids \o scope'.returned)
          /\ job_ids' # job_ids => geo_idx' # geo_idx
          /\ attempts' # attempts =>
                 /\ geo_idx > Len(GeoIds)
                 /\ attempts' = SubSeq(job_ids, 1, Len(attempts) + 1)
          /\ all_jobs' # all_jobs =>
                 /\ attempts' # attempts
                 /\ Len(all_jobs') = Len(all_jobs) + 1
                 /\ all_jobs = SubSeq(all_jobs', 1, Len(all_jobs))
                 /\ all_jobs'[Len(all_jobs')].job_id = job_ids[Len(attempts')]]_vars

C17_Witness ==
    /\ pc = "done"
    /\ job_ids = <<"2", "1">>
    /\ scope.returned = <<"1">>
    /\ attempts = job_ids
    /\ Len(all_jobs) = 2
    /\ all_jobs[1].job_id = "2"

\* The document _save_results_json would dump for a run's two lists.
Output(jobs, failed) ==
    [successful_jobs |-> jobs,
     failed_jobs |-> failed,
     stats |-> [total_jobs |-> Len(jobs) + Len(failed),
                successful |-> Len(jobs),
                failed |-> Len(failed)]]

\* C15: a run that had results to save leaves, at config.output_file, the
\* JSON document of its accepted records, failed records and counts, whether
\* the database write committed or was rolled back.
C15_JsonExportWritten ==
    (pc = "done" /\ save.calls = 1) => output_file = <<Output(all_jobs, failed_jobs)>>

\* ------------------------------------------------ details specification
\* _get_job_details on its own, once the detail page has loaded: the job_id
\* and the page are drawn at the start, the one action applies the method.
pipeline_vars == <<pc, run, config, driver, quits, exc, auth, geo_idx, all_job_ids, job_ids,
                   idx, all_jobs, failed_jobs, session, db, attempts, failures, scope, save,
                   output_file>>

DetailInputs ==
    [job_id : JobIds,
     page : {MkPage(t, ab) : t \in {<<"A", "b">>, <<"x">>},
                             ab \in SUBSET {"title", "company", "description", "location"}}]

DetailsInit ==
    /\ PipelineIdle
    /\ FilterIdle
    /\ d_in \in DetailInputs
    /\ d_out = <<>>
    /\ EnvIdle
    /\ RetryIdle

ApplyGetJobDetails ==
    /\ d_out = <<>>
    /\ d_out' = <<GetJobDetails(d_in.job_id, d_in.page)>>
    /\ UNCHANGED <<pipeline_vars, filter_vars, d_in, e_in, e_out, r_in, r_st>>

DetailsNext == ApplyGetJobDetails

SpecDetails == DetailsInit /\ [][DetailsNext]_vars

\* C12: _get_job_details returns a record exactly when the title, the
\* company and the description are on the page; a page without the location
\* element still yields a record, its location absent.
C12_RequiredFieldsDecide ==
    Len(d_out) = 1 =>
        LET returned == d_out[1] # NoDetails
        IN  /\ returned <=> d_in.page.absent \cap {"title", "company", "description"} = {}
            /\ (returned /\ "location" \in d_in.page.absent) => d_out[1].location = Null

\* -------------------------------------------- environment specification
\* ScraperConfig.from_env followed by _should_include_job: the two settings
\* of the environment and an extracted record are drawn at the start, the
\* one action builds the configuration and applies the filter with it.
EnvValues == {<<>>} \cup {<<v>> : v \in SeqsUpTo({"a", ","}, MaxStrLen)}

EnvInputs ==
    [CONTAINS : EnvValues,
     NON_CONTAINS : EnvValues,
     details : {MkDetails("1", MkPage(t, {})) : t \in {<<"A", "b">>, <<"x">>}}]

EnvInit ==
    /\ PipelineIdle
    /\ FilterIdle
    /\ DetailsIdle
    /\ e_in \in EnvInputs
    /\ e_out = <<>>
    /\ RetryIdle

ApplyFromEnv ==
    /\ e_out = <<>>
    /\ LET cfg == FromEnv(e_in)
       IN  e_out' = <<[contains |-> cfg.contains,
                       non_contains |-> cfg.non_contains,
                       included |-> ShouldIncludeJob(e_in.details, cfg.contains,
                                                     cfg.non_contains)]>>
    /\ UNCHANGED <<pipeline_vars, filter_vars, d_in, d_out, e_in, r_in, r_st>>

EnvNext == ApplyFromEnv

SpecEnv == EnvInit /\ [][EnvNext]_vars

\* A setting that is unset, or set to the empty string.
UnsetOrEmpty(variable) == variable = <<>> \/ variable = <<(<<>>)>>

\* C18: a keyword setting that is unset or empty leaves the filter without a
\* constraint from that setting; with both unset or empty every extracted
\* record is accepted.
C18_UnsetKeywordsImposeNothing ==
    Len(e_out) = 1 =>
        LET contains == IF UnsetOrEmpty(e_in.CONTAINS) THEN <<>> ELSE e_out[1].contains
            non_contains == IF UnsetOrEmpty(e_in.NON_CONTAINS) THEN <<>>
                            ELSE e_out[1].non_contains
        IN  /\ e_out[1].included = ShouldIncludeJob(e_in.details, contains, non_contains)
            /\ (UnsetOrEmpty(e_in.CONTAINS) /\ UnsetOrEmpty(e_in.NON_CONTAINS)) =>
                   e_out[1].included

\* -------------------------------------------------- retry specification
\* The wrapper of retry_on_failure(max_retries, delay) around a function
\* whose every call returns ("ok") or raises one of two exceptions:
\* max_retries and delay are drawn at the start, one action is one turn of
\* `for attempt in range(max_retries)`.
CallOutcomes == {"ok", "e1", "e2"}

RetryInit ==
    /\ PipelineIdle
    /\ FilterIdle
    /\ DetailsIdle
    /\ EnvIdle
    /\ r_in \in [max_retries : 0..MaxRetries, delay : 1..MaxDelay]
    /\ r_st = NoRetry

\* A slip: the last attempt is never recognised.
IsLastAttempt_Never(attempt, max_retries) == FALSE

\* if attempt == max_retries - 1
IsLastAttempt(attempt, max_retries) == attempt + 1 = max_retries

\* time.sleep(delay * (attempt + 1))
SleepFor(delay, attempt) == delay * (attempt + 1)

\* One turn of the loop: call func; return what it returns; on an exception
\* re-raise it on the last attempt, else sleep and go round again.
RetryAttempt ==
    /\ r_st.how = "pending"
    /\ r_st.attempt < r_in.max_retries
    /\ \E outcome \in CallOutcomes :
         LET calls == Append(r_st.calls, outcome)
         IN  IF outcome = "ok"
             THEN r_st' = [r_st EXCEPT !.calls = calls, !.how = "returned", !.what = outcome]
             ELSE IF IsLastAttempt(r_st.attempt, r_in.max_retries)
             THEN r_st' = [r_st EXCEPT !.calls = calls, !.how = "raised", !.what = outcome]
             ELSE r_st' = [r_st EXCEPT !.calls = calls,
                                 !.sleeps = Append(@, SleepFor(r_in.delay, r_st.attempt)),
                                 !.attempt = @ + 1]
    /\ UNCHANGED <<pipeline_vars, filter_vars, d_in, d_out, e_in, e_out, r_in>>

\* The loop is exhausted without a return or a raise: `return None`.
RetryReturnNone ==
    /\ r_st.how = "pending"
    /\ r_st.attempt >= r_in.max_retries
    /\ r_st' = [r_st EXCEPT !.how = "returned", !.what = "None"]
    /\ UNCHANGED <<pipeline_vars, filter_vars, d_in, d_out, e_in, e_out, r_in>>

RetryNext == RetryAttempt \/ RetryReturnNone

SpecRetry == RetryInit /\ [][RetryNext]_vars

\* The calls so far that raised.
RaisedCalls == {k \in 1..Len(r_st.calls) : r_st.calls[k] # "ok"}

\* C19: with max_retries = n >= 1 and delay = d, the function is called at
\* most n times and never again after a call that returned; the wrapper
\* returns what the first call that does not raise returned; when all n
\* calls raise it re-raises the exception of the n-th; after failed attempt
\* number k that is not the last it sleeps d*k, and after the n-th not at all.
C19_BoundedRetry ==
    r_in.max_retries >= 1 =>
        LET n == r_in.max_retries
            last == Len(r_st.calls)
        IN  /\ last <= n
            /\ \A k \in 1..last : r_st.calls[k] = "ok" => k = last
            /\ r_st.how = "returned" <=> (last >= 1 /\ r_st.calls[last] = "ok")
            /\ r_st.how = "returned" => r_st.what = r_st.calls[last]
            /\ r_st.how = "raised" <=> (last = n /\ r_st.calls[n] # "ok")
            /\ r_st.how = "raised" => r_st.what = r_st.calls[n]
            /\ Len(r_st.sleeps) = Cardinality(RaisedCalls \ {n})
            /\ \A k \in 1..Len(r_st.sleeps) : r_st.sleeps[k] = r_in.delay * k

C19_Witness ==
    /\ r_in = [max_retries |-> 3, delay |-> 2]
    /\ r_st.how = "raised"
    /\ r_st.calls = <<"e1", "e2", "e1">>
    /\ r_st.what = "e1"
    /\ r_st.sleeps = <<2, 4>>

====
